---- MODULE Spec2Model ----
(***************************************************************************)
(* Model of the Test Tube payments backend (src/backend/main.py): the      *)
(* in-memory ledger transactions_db, the transactions file, the /pay       *)
(* handler process_payment with its await points, the settlement backend   *)
(* (Solana RPC) it talks to, and the query endpoints.                      *)
(*                                                                         *)
(* Amounts are whole SOL (the source uses floats); one unit of balance is  *)
(* one SOL, so that lamports = int(amount * 1e9) compares like the amount. *)
(* Time is counted in ticks, TicksPerDay of them in a day.                 *)
(***************************************************************************)
EXTENDS Integers, Sequences, FiniteSets, TLC

VARIABLES
    transactions_db,   \* main.py:47   the global list of record dicts
    transactions_file, \* main.py:25   content of transactions.json
    server,            \* "up", or "down" when the module failed to import
    boots,             \* number of process restarts so far
    now,               \* datetime.now() as last read
    pc,                \* per /pay request: the await point it is at
    payment,           \* per /pay request: the PaymentRequest body
    origin,            \* per /pay request: the request it retries (itself if new)
    client,            \* per /pay request: its AsyncClient
    bal_seen,          \* per /pay request: bal_lamports read at main.py:183
    tx_sig,            \* per /pay request: signature returned by send_transaction
    result,            \* per /pay request: "ok" (returns tx_record) or "error" (raises)
    resp,              \* per /pay request: HTTP status seen by the caller
    rpc_calls,         \* per /pay request: [call name -> times called]
    chain,             \* settlement backend: transfers submitted so far
    balance,           \* settlement backend: balance of PAYER
    airdrops,          \* settlement backend: airdrops requested, not yet landed
    faults,            \* settlement backend: calls it failed to serve so far
    insight            \* POST /ai/insights: where the handler is, its period
                       \* and its local now (main.py:319)

vars == <<transactions_db, transactions_file, server, boots, now, pc, payment,
          origin, client, bal_seen, tx_sig, result, resp, rpc_calls, chain,
          balance, airdrops, faults, insight>>

handler_vars == <<pc, payment, origin, client, bal_seen, tx_sig, result, resp,
                  rpc_calls>>
backend_vars == <<chain, balance, airdrops, faults>>
ledger_vars  == <<transactions_db, transactions_file>>

-----------------------------------------------------------------------------
(* Bounds of the model *)

NumReq == 2        \* /pay requests made over a run
MaxTicks == 1      \* clock ticks over a run
MaxRestarts == 1   \* process restarts over a run
MaxAirdrops == 1   \* airdrops in flight at the backend
MaxFaults == 1     \* backend calls that fail (backend unavailable) over a run
TicksPerDay == 2   \* resolution of the clock
MaxLedger == 2     \* records of a ledger the queries are tried on

Reqs == 1..NumReq

NULL == "null"

\* A field the request body does not hold.
ABSENT == "absent"

-----------------------------------------------------------------------------
(* Constants of the program *)

AIRDROP_SOL == 2       \* request_airdrop(PAYER.pubkey(), 2_000_000_000)
SOL_TO_USD == 100
USD_TO_NGN == 1500
WEEK_DAYS == 7
MONTH_DAYS == 30
TOP_MERCHANTS == 5         \* sorted(...)[:5]
MAX_SUGGESTIONS == 3       \* suggestions[:3]
FOOD_ADVICE_NGN == 50000
DATA_ADVICE_NGN == 20000
TRANSPORT_ADVICE_NGN == 30000

Categories == {"food", "transport", "data", "books", "entertainment",
               "utilities", "supplies", "other"}

\* The four registered merchants; addresses are abbreviated to their digit.
MERCHANTS ==
    [a \in {"1111", "2222", "3333", "4444"} |->
        CASE a = "1111" -> [name |-> "Campus Cafeteria", category |-> "food"]
          [] a = "2222" -> [name |-> "Cab Car Park", category |-> "transport"]
          [] a = "3333" -> [name |-> "Data Reseller", category |-> "data"]
          [] a = "4444" -> [name |-> "Campus Bookstore", category |-> "books"]]

sol_to_naira(sol_amount) == sol_amount * SOL_TO_USD * USD_TO_NGN

-----------------------------------------------------------------------------
(* Records and the transactions file *)

\* A timestamp is a datetime object or its ISO string; t is the instant.
DateTime(t) == [kind |-> "datetime", t |-> t]
IsoString(t) == [kind |-> "str", t |-> t]

\* merchant_info = MERCHANTS.get(payment.recipient, {})
merchant_name(recipient) ==
    IF recipient \in DOMAIN MERCHANTS THEN MERCHANTS[recipient].name ELSE NULL

\* category: Optional[TransactionCategory] = TransactionCategory.OTHER: a body
\* without the field gets the default, a body with null keeps None.
request_category(body) ==
    IF body.category = ABSENT THEN "other" ELSE body.category

\* payment.category or merchant_info.get("category", TransactionCategory.OTHER)
record_category(p) ==
    IF request_category(p) # NULL THEN request_category(p)
    ELSE IF p.recipient \in DOMAIN MERCHANTS THEN MERCHANTS[p.recipient].category
    ELSE "other"

\* The id without the + 1.
next_id_off_by_one(db) == Len(db)

\* id=f"tx_{len(transactions_db) + 1}"; the model keeps the number.
next_id(db) == Len(db) + 1

\* tx_sig = send_resp.value; tx_signature=str(tx_sig)
tx_signature_of(send_resp) == send_resp

\* TransactionRecord(...).dict(): the dict keeps timestamp as a datetime object.
TransactionRecord(p, db, sig, t) ==
    [id            |-> next_id(db),
     sender        |-> "PAYER",
     recipient     |-> p.recipient,
     merchant_name |-> merchant_name(p.recipient),
     amount_sol    |-> p.amount,
     amount_ngn    |-> sol_to_naira(p.amount),
     category      |-> record_category(p),
     timestamp     |-> DateTime(t),
     tx_signature  |-> tx_signature_of(sig)]

\* The record appended twice.
store_transaction_twice(db, rec) == Append(Append(db, rec), rec)

\* transactions_db = [tx_record.dict()]: the list is replaced by the new
\* record and the records appended before it are lost.
store_transaction_replacing(db, rec) == <<rec>>

\* transactions_db.append(tx_record.dict())
store_transaction(db, rec) == Append(db, rec)

\* json.dump can encode a record unless it holds a datetime object.
Serializable(rec) == rec.timestamp.kind = "str"

\* Index of the first record json.dump cannot encode, 0 when there is none.
FirstUnserializable(db) ==
    IF \A i \in 1..Len(db) : Serializable(db[i]) THEN 0
    ELSE CHOOSE i \in 1..Len(db) :
            /\ ~Serializable(db[i])
            /\ \A j \in 1..(i - 1) : Serializable(db[j])

\* save_transactions raises TypeError when a record is not serializable.
save_raises(db) == FirstUnserializable(db) # 0

\* save_transactions: open(.., "w") truncates the file and json.dump writes it
\* chunk by chunk, so a TypeError leaves the records before the bad one (and
\* an unterminated document) in the file.
save_transactions(db) ==
    IF save_raises(db)
    THEN [state |-> "corrupt", content |-> SubSeq(db, 1, FirstUnserializable(db) - 1)]
    ELSE [state |-> "valid", content |-> db]

\* load_transactions raises JSONDecodeError on an unterminated document.
load_raises(file) == file.state = "corrupt"

\* load_transactions: transactions_db = json.load(f) when the file exists.
load_transactions(file) ==
    IF file.state = "valid" THEN file.content ELSE <<>>

-----------------------------------------------------------------------------
(* The query endpoints, as functions of the ledger and the clock *)

RECURSIVE SumOver(_, _)
\* sum(f(tx) for tx in txs), left to right
SumOver(txs, field) ==
    IF txs = <<>> THEN 0
    ELSE SumOver(SubSeq(txs, 1, Len(txs) - 1), field) + txs[Len(txs)][field]

\* [tx for tx in txs if Keep(tx)]
SelectTx(txs, Keep(_)) == SelectSeq(txs, Keep)

\* datetime.fromisoformat(tx["timestamp"]) raises TypeError unless given a str.
fromisoformat_raises(txs) ==
    \E i \in 1..Len(txs) : txs[i].timestamp.kind # "str"

\* Comparing a str with a datetime raises TypeError; a sort of two or more
\* elements of both kinds makes that comparison.
sort_raises(txs) ==
    \E i, j \in 1..Len(txs) : txs[i].timestamp.kind # txs[j].timestamp.kind

RECURSIVE InsertDesc(_, _)
\* x placed behind the elements that are not older than it.
InsertDesc(sorted, x) ==
    IF sorted = <<>> THEN <<x>>
    ELSE IF Head(sorted).timestamp.t >= x.timestamp.t
         THEN <<Head(sorted)>> \o InsertDesc(Tail(sorted), x)
         ELSE <<x>> \o sorted

RECURSIVE sort_newest_first(_)
\* filtered_txs.sort(key=lambda x: x["timestamp"], reverse=True): stable, so
\* records of one instant keep the order they have in the list.
sort_newest_first(txs) ==
    IF txs = <<>> THEN <<>>
    ELSE InsertDesc(sort_newest_first(SubSeq(txs, 1, Len(txs) - 1)), txs[Len(txs)])

\* filtered_txs[:limit]
slice_to(txs, limit) ==
    IF limit >= 0
    THEN SubSeq(txs, 1, IF limit < Len(txs) THEN limit ELSE Len(txs))
    ELSE SubSeq(txs, 1, IF Len(txs) + limit > 0 THEN Len(txs) + limit ELSE 0)

Raised == [status |-> 500]

\* start_date and end_date when the query does not give them (None); a date
\* that is given is an instant, and instants are not negative.
NoDate == -1

\* GET /transactions
get_transactions(db, category, start_date, end_date, limit) ==
    LET by_category == IF category # NULL
                       THEN SelectTx(db, LAMBDA tx : tx.category = category)
                       ELSE db
        by_start == IF start_date # NoDate
                    THEN SelectTx(by_category, LAMBDA tx : tx.timestamp.t >= start_date)
                    ELSE by_category
        by_end == IF end_date # NoDate
                  THEN SelectTx(by_start, LAMBDA tx : tx.timestamp.t <= end_date)
                  ELSE by_start
        sorted == sort_newest_first(by_end)
    IN IF start_date # NoDate /\ fromisoformat_raises(by_category) THEN Raised
       ELSE IF end_date # NoDate /\ fromisoformat_raises(by_start) THEN Raised
       ELSE IF sort_raises(by_end) THEN Raised
       ELSE [status       |-> 200,
             transactions |-> slice_to(sorted, limit),
             total        |-> Len(sorted),
             total_sol    |-> SumOver(sorted, "amount_sol"),
             total_ngn    |-> SumOver(sorted, "amount_ngn")]

\* now.replace(hour=0, minute=0, second=0, microsecond=0)
today_of(t) == t - (t % TicksPerDay)
\* now - timedelta(weeks=7): a window that reaches back further than the
\* month's.
week_ago_of_weeks(t) == t - WEEK_DAYS * WEEK_DAYS * TicksPerDay
\* now - timedelta(days=7)
week_ago_of(t) == t - WEEK_DAYS * TicksPerDay
\* now - timedelta(days=30)
month_ago_of(t) == t - MONTH_DAYS * TicksPerDay

\* [tx for tx in transactions_db if fromisoformat(tx["timestamp"]) >= since]
txs_since(db, since) == SelectTx(db, LAMBDA tx : tx.timestamp.t >= since)

RECURSIVE category_totals(_)
\* The loop of main.py:461-468 over month_txs.
category_totals(txs) ==
    IF txs = <<>> THEN <<>>
    ELSE LET acc == category_totals(SubSeq(txs, 1, Len(txs) - 1))
             tx  == txs[Len(txs)]
             cat == tx.category
             old == IF cat \in DOMAIN acc THEN acc[cat]
                    ELSE [count |-> 0, sol |-> 0, ngn |-> 0]
             new == [count |-> old.count + 1,
                     sol   |-> old.sol + tx.amount_sol,
                     ngn   |-> old.ngn + tx.amount_ngn]
         IN [c \in DOMAIN acc \cup {cat} |-> IF c = cat THEN new ELSE acc[c]]

RECURSIVE merchant_spending(_)
\* The loop of main.py:471-476: the dict as the sequence of its items, in the
\* order the keys were inserted. tx.get("merchant_name", "Unknown") gives the
\* stored value, None for a recipient that is no merchant.
merchant_spending(txs) ==
    IF txs = <<>> THEN <<>>
    ELSE LET acc  == merchant_spending(SubSeq(txs, 1, Len(txs) - 1))
             tx   == txs[Len(txs)]
             name == tx.merchant_name
         IN IF \E i \in 1..Len(acc) : acc[i].name = name
            THEN [i \in 1..Len(acc) |->
                    IF acc[i].name = name
                    THEN [acc[i] EXCEPT !.amount_ngn = @ + tx.amount_ngn]
                    ELSE acc[i]]
            ELSE Append(acc, [name |-> name, amount_ngn |-> tx.amount_ngn])

RECURSIVE InsertByAmount(_, _)
\* x placed behind the items whose amount is not smaller.
InsertByAmount(sorted, x) ==
    IF sorted = <<>> THEN <<x>>
    ELSE IF Head(sorted).amount_ngn >= x.amount_ngn
         THEN <<Head(sorted)>> \o InsertByAmount(Tail(sorted), x)
         ELSE <<x>> \o sorted

RECURSIVE sort_largest_first(_)
\* sorted(merchant_spending.items(), key=lambda x: x[1], reverse=True): stable,
\* items of one amount keep the order of the dict.
sort_largest_first(items) ==
    IF items = <<>> THEN <<>>
    ELSE InsertByAmount(sort_largest_first(SubSeq(items, 1, Len(items) - 1)),
                        items[Len(items)])

\* top_merchants = sorted(...)[:5]
top_merchants(txs) ==
    slice_to(sort_largest_first(merchant_spending(txs)), TOP_MERCHANTS)

window_stats(txs) ==
    [transactions |-> Len(txs),
     total_sol    |-> SumOver(txs, "amount_sol"),
     total_ngn    |-> SumOver(txs, "amount_ngn")]

\* GET /analytics/summary (average_transaction left out).
get_analytics_summary(db, t) ==
    IF db = <<>> THEN [status |-> 200, message |-> "No transactions yet",
                       stats |-> <<>>]
    ELSE IF fromisoformat_raises(db) THEN Raised
    ELSE LET month_txs == txs_since(db, month_ago_of(t))
         IN [status  |-> 200,
             message |-> NULL,
             daily   |-> window_stats(txs_since(db, today_of(t))),
             weekly  |-> window_stats(txs_since(db, week_ago_of(t))),
             monthly |-> window_stats(month_txs),
             category_breakdown |-> category_totals(month_txs),
             top_merchants |-> top_merchants(month_txs)]

-----------------------------------------------------------------------------
(* POST /ai/insights, as a function of the ledger, the clock, the period and
   the outcome of the chat-completion call *)

\* The periods asked for; "year" is none of the three the handler knows.
InsightPeriods == {"today", "week", "month", "year"}

\* How ai_client.chat.completions.create ends.
ChatOutcomes == {"answers", "raises"}

\* start_date of main.py:320-327; any other period means one day.
period_start(t, period) ==
    CASE period = "today" -> today_of(t)
      [] period = "week"  -> week_ago_of(t)
      [] period = "month" -> month_ago_of(t)
      [] OTHER            -> t - TicksPerDay

RECURSIVE categories_in_order(_)
\* The keys of category_spending in the order the loop inserted them.
categories_in_order(txs) ==
    IF txs = <<>> THEN <<>>
    ELSE LET acc == categories_in_order(SubSeq(txs, 1, Len(txs) - 1))
             cat == txs[Len(txs)].category
         IN IF \E i \in 1..Len(acc) : acc[i] = cat THEN acc ELSE Append(acc, cat)

\* The loop of main.py:341-348: the loop of category_totals under other keys.
category_spending(txs) ==
    LET totals == category_totals(txs)
    IN [c \in DOMAIN totals |-> [count     |-> totals[c].count,
                                 total_sol |-> totals[c].sol,
                                 total_ngn |-> totals[c].ngn]]

\* max(category_spending.items(), key=lambda x: x[1]["total_sol"])[0]: the
\* first key, in the order of the dict, with the largest total.
top_category(spending, order) ==
    LET best == CHOOSE i \in 1..Len(order) :
                  /\ \A j \in 1..Len(order) :
                        spending[order[j]].total_sol <= spending[order[i]].total_sol
                  /\ \A j \in 1..(i - 1) :
                        spending[order[j]].total_sol < spending[order[i]].total_sol
    IN order[best]

\* The category whose advice applies to an amount, NULL when none does.
advice_for(category, amount_ngn) ==
    IF category = "food" /\ amount_ngn > FOOD_ADVICE_NGN THEN "food"
    ELSE IF category = "data" /\ amount_ngn > DATA_ADVICE_NGN THEN "data"
    ELSE IF category = "transport" /\ amount_ngn > TRANSPORT_ADVICE_NGN
         THEN "transport"
    ELSE NULL

\* generate_fallback_insights: the text, as the values it is written from.
generate_fallback_insights(spending, order, txs) ==
    LET top == top_category(spending, order)
    IN [transactions |-> Len(txs),
        total_sol    |-> SumOver(txs, "amount_sol"),
        total_ngn    |-> SumOver(txs, "amount_ngn"),
        top_category |-> top,
        top_amount   |-> spending[top].total_ngn,
        advice       |-> advice_for(top, spending[top].total_ngn)]

\* generate_suggestions: one suggestion per category over its amount, in the
\* order of the dict, or the one that all is well; the first three.
generate_suggestions(spending, order) ==
    LET over == SelectSeq(order,
                    LAMBDA c : advice_for(c, spending[c].total_ngn) # NULL)
    IN slice_to(IF over = <<>> THEN <<"keep tracking">> ELSE over,
                MAX_SUGGESTIONS)

\* The exception of the chat-completion call not caught.
on_chat_error_propagates(fallback_answer) == Raised

\* except Exception: insights = generate_fallback_insights(...), and the
\* handler goes on to answer with it.
on_chat_error(fallback_answer) == fallback_answer

\* period_txs of main.py:329-332
period_txs(db, t, period) == txs_since(db, period_start(t, period))

\* The handler gets as far as the chat-completion call.
chat_call_reached(db, t, period) ==
    /\ ~fromisoformat_raises(db)
    /\ period_txs(db, t, period) # <<>>

\* POST /ai/insights; the text of the provider is "chat text".
get_ai_insights(db, t, period, chat) ==
    LET txs      == period_txs(db, t, period)
        spending == category_spending(txs)
        order    == categories_in_order(txs)
        answer(insights) ==
            [status      |-> 200,
             insights    |-> insights,
             suggestions |-> generate_suggestions(spending, order),
             period_summary |->
                 [total_transactions |-> Len(txs),
                  total_sol    |-> SumOver(txs, "amount_sol"),
                  total_ngn    |-> SumOver(txs, "amount_ngn"),
                  top_category |-> top_category(spending, order)]]
    IN IF fromisoformat_raises(db) THEN Raised
       ELSE IF txs = <<>>
       THEN [status |-> 200, insights |-> "no transactions", suggestions |-> <<>>]
       ELSE IF chat = "answers" THEN answer("chat text")
       ELSE on_chat_error(
               answer(generate_fallback_insights(spending, order, txs)))

-----------------------------------------------------------------------------
(* Inputs *)

\* The request bodies posted to /pay: a merchant with the category sent as
\* null, a merchant with no category in the body, a plain wallet with the
\* category stated, and two bodies that must be rejected.
PaymentRequests ==
    {[recipient |-> "1111",       amount |-> 1, category |-> NULL],
     [recipient |-> "1111",       amount |-> 1, category |-> ABSENT],
     [recipient |-> "WALLET",     amount |-> 2, category |-> "food"],
     [recipient |-> "not-base58", amount |-> 1, category |-> "food"],
     [recipient |-> "3333",       amount |-> 1, category |-> "data"],
     [recipient |-> "1111",       amount |-> 0, category |-> "food"]}

\* Field(ge=0) in place of Field(gt=0).
valid_amount_ge(a) == a >= 0

\* Field(gt=0)
valid_amount(a) == a > 0

\* The addresses that are base58 for exactly 32 bytes: a wallet's address,
\* and of the keys of MERCHANTS only "1" x 32 (32 zero bytes); "2" x 32,
\* "3" x 32 and "4" x 32 decode to 23 bytes.
Pubkeys == {"1111", "WALLET"}

\* Pubkey.from_string(payment.recipient) does not raise
valid_recipient(a) == a \in Pubkeys

\* lamports = int(payment.amount * 1_000_000_000), in units of 10^9 lamports
lamports_of(a) == a

NoCalls == [get_balance |-> 0, request_airdrop |-> 0,
            get_latest_blockhash |-> 0, send_transaction |-> 0]

NoPayment == [recipient |-> NULL, amount |-> 0, category |-> NULL]

\* No /ai/insights request is being handled.
IdleInsight == [pc |-> "idle", period |-> NULL, now |-> 0]

\* process_payment and get_ai_insights are coroutines of one event loop. The
\* chat-completion call of get_ai_insights (main.py:371) is a plain blocking
\* call, not an await: the loop runs nothing else until it returns.
EventLoopFree == insight.pc # "chat_completion"

-----------------------------------------------------------------------------
(* The state after the module is imported *)

\* First instant of the model: more than a month after instant 0.
Now0 == (MONTH_DAYS + 1) * TicksPerDay + 1

\* A record as a file written in the format the queries read holds it.
StoredRecord(id, recipient, amount, category, t, sig) ==
    [id            |-> id,
     sender        |-> "PAYER",
     recipient     |-> recipient,
     merchant_name |-> merchant_name(recipient),
     amount_sol    |-> amount,
     amount_ngn    |-> sol_to_naira(amount),
     category      |-> category,
     timestamp     |-> IsoString(t),
     tx_signature  |-> sig]

\* The payer's balance at start covers the smaller payment, not the larger.
InitBalance == AIRDROP_SOL - 1

AbsentFile == [state |-> "absent", content |-> <<>>]

\* transactions.json as the process finds it at start: absent, or holding
\* earlier payments tx_1.. in order of time.
InitFiles ==
    {AbsentFile,
     [state |-> "valid",
      content |-> <<StoredRecord(1, "1111", 2, "food", Now0 - 1, 1)>>],
     [state |-> "valid",
      content |-> <<StoredRecord(1, "WALLET", 1, "other", 0, 1),
                    StoredRecord(2, "2222", 2, "transport", Now0, 2)>>]}

\* The transfers behind the records of the file, all confirmed long ago.
InitChain(file) ==
    [i \in 1..Len(file.content) |->
        [req |-> 0, origin |-> 0, amount |-> file.content[i].amount_sol,
         status |-> "confirmed"]]

Init ==
    /\ transactions_file \in InitFiles
    /\ transactions_db = load_transactions(transactions_file)
    /\ server = "up"
    /\ boots = 0
    /\ now = Now0
    /\ pc = [r \in Reqs |-> "idle"]
    /\ payment = [r \in Reqs |-> NoPayment]
    /\ origin = [r \in Reqs |-> r]
    /\ client = [r \in Reqs |-> "none"]
    /\ bal_seen = [r \in Reqs |-> -1]
    /\ tx_sig = [r \in Reqs |-> 0]
    /\ result = [r \in Reqs |-> "none"]
    /\ resp = [r \in Reqs |-> 0]
    /\ rpc_calls = [r \in Reqs |-> NoCalls]
    /\ chain = InitChain(transactions_file)
    /\ balance = InitBalance
    /\ airdrops = 0
    /\ faults = 0
    /\ insight = IdleInsight

-----------------------------------------------------------------------------
(* POST /pay: process_payment, one action per await point *)

Called(r, name) == [rpc_calls EXCEPT ![r][name] = @ + 1]

\* The exception caught and the call made again.
on_rpc_error_retry(step) == step

\* The exception of send_transaction swallowed and the handler going on.
on_rpc_error_swallowed(step) == IF step = "send_transaction" THEN "sent" ELSE "close"

\* An exception inside the try block leaves through finally: close, then 500.
on_rpc_error(step) == "close"

\* <= in place of <.
needs_airdrop_le(bal_lamports, lamports) == bal_lamports <= lamports

\* if bal_lamports < lamports
needs_airdrop(bal_lamports, lamports) == bal_lamports < lamports

\* Requests take the slots in order; a slot serves one request.
FreeSlot(r) ==
    /\ server = "up"
    /\ EventLoopFree
    /\ pc[r] = "idle"
    /\ \A q \in Reqs : q < r => pc[q] # "idle"

\* Request validation (pydantic, 422) and Pubkey.from_string (400), then
\* AsyncClient(RPC_URL).
Accept(r, p, o) ==
    /\ payment' = [payment EXCEPT ![r] = p]
    /\ origin' = [origin EXCEPT ![r] = o]
    /\ IF ~valid_amount(p.amount)
       THEN /\ pc' = [pc EXCEPT ![r] = "done"]
            /\ resp' = [resp EXCEPT ![r] = 422]
            /\ UNCHANGED <<client, result>>
       ELSE IF ~valid_recipient(p.recipient)
       THEN /\ pc' = [pc EXCEPT ![r] = "done"]
            /\ resp' = [resp EXCEPT ![r] = 400]
            /\ UNCHANGED <<client, result>>
       ELSE /\ pc' = [pc EXCEPT ![r] = "get_balance"]
            /\ client' = [client EXCEPT ![r] = "open"]
            /\ UNCHANGED <<resp, result>>
    /\ UNCHANGED <<bal_seen, tx_sig, rpc_calls, backend_vars, ledger_vars,
                   server, boots, now,
                   insight>>

\* A caller posts a new payment.
Pay(r) ==
    /\ FreeSlot(r)
    /\ \E p \in PaymentRequests : Accept(r, p, r)

\* A caller whose request q ended in a server error, or was cut by a crash,
\* posts the same payment again.
Retry(r) ==
    /\ FreeSlot(r)
    /\ \E q \in Reqs :
        /\ \/ pc[q] = "lost"
           \/ pc[q] = "done" /\ resp[q] = 500
        /\ \A q2 \in Reqs : (q2 # q /\ origin[q2] = origin[q]) =>
                               pc[q2] \in {"idle", "lost", "done"}
        /\ \A q2 \in Reqs : origin[q2] = origin[q] => resp[q2] # 200
        /\ Accept(r, payment[q], origin[q])

\* How a call to the backend may end: served, or the backend is unavailable.
RpcOutcomes == IF faults < MaxFaults THEN {"ok", "unavailable"} ELSE {"ok"}

Faulted(outcome) == IF outcome = "unavailable" THEN faults + 1 ELSE faults

\* bal_resp = await async_client.get_balance(PAYER.pubkey())
GetBalance(r) ==
    /\ server = "up"
    /\ EventLoopFree
    /\ pc[r] = "get_balance"
    /\ rpc_calls' = Called(r, "get_balance")
    /\ \E outcome \in RpcOutcomes :
        /\ faults' = Faulted(outcome)
        /\ IF outcome = "ok"
           THEN /\ bal_seen' = [bal_seen EXCEPT ![r] = balance]
                /\ pc' = [pc EXCEPT ![r] =
                            IF needs_airdrop(balance, lamports_of(payment[r].amount))
                            THEN "request_airdrop" ELSE "get_latest_blockhash"]
                /\ UNCHANGED result
           ELSE /\ pc' = [pc EXCEPT ![r] = on_rpc_error("get_balance")]
                /\ result' = [result EXCEPT ![r] = "error"]
                /\ UNCHANGED bal_seen
    /\ UNCHANGED <<payment, origin, client, tx_sig, resp, chain, balance,
                   airdrops, ledger_vars, server, boots, now,
                   insight>>

\* await async_client.request_airdrop(PAYER.pubkey(), 2_000_000_000); the
\* faucet refuses (rate limit) while MaxAirdrops airdrops are in flight.
RequestAirdrop(r) ==
    /\ server = "up"
    /\ EventLoopFree
    /\ pc[r] = "request_airdrop"
    /\ rpc_calls' = Called(r, "request_airdrop")
    /\ \E outcome \in RpcOutcomes :
        /\ faults' = Faulted(outcome)
        /\ IF outcome = "ok" /\ airdrops < MaxAirdrops
           THEN /\ airdrops' = airdrops + 1
                /\ pc' = [pc EXCEPT ![r] = "sleep"]
                /\ UNCHANGED result
           ELSE /\ pc' = [pc EXCEPT ![r] = on_rpc_error("request_airdrop")]
                /\ result' = [result EXCEPT ![r] = "error"]
                /\ UNCHANGED airdrops
    /\ UNCHANGED <<payment, origin, client, bal_seen, tx_sig, resp, chain,
                   balance, ledger_vars, server, boots, now,
                   insight>>

\* await asyncio.sleep(3)
Sleep(r) ==
    /\ server = "up"
    /\ EventLoopFree
    /\ pc[r] = "sleep"
    /\ pc' = [pc EXCEPT ![r] = "get_latest_blockhash"]
    /\ UNCHANGED <<payment, origin, client, bal_seen, tx_sig, result, resp,
                   rpc_calls, backend_vars, ledger_vars, server, boots, now,
                   insight>>

\* blockhash_resp = await async_client.get_latest_blockhash()
GetLatestBlockhash(r) ==
    /\ server = "up"
    /\ EventLoopFree
    /\ pc[r] = "get_latest_blockhash"
    /\ rpc_calls' = Called(r, "get_latest_blockhash")
    /\ \E outcome \in RpcOutcomes :
        /\ faults' = Faulted(outcome)
        /\ IF outcome = "ok"
           THEN /\ pc' = [pc EXCEPT ![r] = "send_transaction"]
                /\ UNCHANGED result
           ELSE /\ pc' = [pc EXCEPT ![r] = on_rpc_error("get_latest_blockhash")]
                /\ result' = [result EXCEPT ![r] = "error"]
    /\ UNCHANGED <<payment, origin, client, bal_seen, tx_sig, resp, chain,
                   balance, airdrops, ledger_vars, server, boots, now,
                   insight>>

\* The backend takes a transfer it can pay for (preflight simulation) and
\* answers with its signature, the transfer's place in the chain; it rejects
\* the others (insufficient funds).
BackendAccepts(r) == balance >= lamports_of(payment[r].amount)

\* send_resp = await async_client.send_transaction(tx): the call is made and
\* the backend takes or rejects the transfer; the answer is awaited.
SendTransaction(r) ==
    /\ server = "up"
    /\ EventLoopFree
    /\ pc[r] = "send_transaction"
    /\ rpc_calls' = Called(r, "send_transaction")
    /\ \E outcome \in RpcOutcomes :
        /\ faults' = Faulted(outcome)
        /\ IF outcome = "ok" /\ BackendAccepts(r)
           THEN /\ chain' = Append(chain, [req |-> r, origin |-> origin[r],
                                           amount |-> payment[r].amount,
                                           status |-> "submitted"])
                /\ pc' = [pc EXCEPT ![r] = "sent"]
                /\ UNCHANGED result
           ELSE /\ pc' = [pc EXCEPT ![r] = on_rpc_error("send_transaction")]
                /\ result' = [result EXCEPT ![r] = "error"]
                /\ UNCHANGED chain
    /\ UNCHANGED <<payment, origin, client, bal_seen, tx_sig, resp, balance,
                   airdrops, ledger_vars, server, boots, now,
                   insight>>

\* The signature of the transfer request r submitted (0: it submitted none).
SubmittedBy(r) ==
    IF \E i \in 1..Len(chain) : chain[i].req = r
    THEN CHOOSE i \in 1..Len(chain) : chain[i].req = r
    ELSE 0

\* The instants datetime.now() may give (main.py:227, 319, 450): since its
\* last reading the clock stood still or went on by a tick.
ClockReadings == {t \in {now, now + 1} : t <= Now0 + MaxTicks}

\* save_transactions wrapped in try/except that logs and goes on: the handler
\* returns tx_record whether or not the file was written.
outcome_save_error_swallowed(db) == "ok"

\* save_transactions(); return tx_record (main.py:234-236): the handler gets
\* to the return statement unless the save raises.
outcome_after_save(db) == IF save_raises(db) THEN "error" ELSE "ok"

\* send_transaction returns: the record is built, appended and saved without
\* another await (main.py:212-236).
RecordTransaction(r) ==
    /\ server = "up"
    /\ EventLoopFree
    /\ pc[r] = "sent"
    /\ \E t \in ClockReadings :
        LET sig == SubmittedBy(r)
            rec == TransactionRecord(payment[r], transactions_db, sig, t)
            db  == store_transaction(transactions_db, rec)
        IN /\ now' = t
           /\ tx_sig' = [tx_sig EXCEPT ![r] = sig]
           /\ transactions_db' = db
           /\ transactions_file' = save_transactions(db)
           /\ result' = [result EXCEPT ![r] = outcome_after_save(db)]
    /\ pc' = [pc EXCEPT ![r] = "close"]
    /\ UNCHANGED <<payment, origin, client, bal_seen, resp, rpc_calls,
                   backend_vars, server, boots,
                   insight>>

\* finally: await async_client.close(); then the handler returns or raises,
\* its locals are gone and the response goes out.
\* A handler that closes its client as the last statement of the try block
\* and not in a finally clause: a raise leaves the client open.
client_closed_on_return_only(outcome) ==
    IF outcome = "ok" THEN "closed" ELSE "open"

\* finally: await async_client.close() runs whether the try block returned
\* or raised.
client_after_finally(outcome) == "closed"

Close(r) ==
    /\ server = "up"
    /\ EventLoopFree
    /\ pc[r] = "close"
    /\ client' = [client EXCEPT ![r] = client_after_finally(result[r])]
    /\ resp' = [resp EXCEPT ![r] = IF result[r] = "ok" THEN 200 ELSE 500]
    /\ pc' = [pc EXCEPT ![r] = "done"]
    /\ bal_seen' = [bal_seen EXCEPT ![r] = -1]
    /\ tx_sig' = [tx_sig EXCEPT ![r] = 0]
    /\ result' = [result EXCEPT ![r] = "none"]
    /\ rpc_calls' = [rpc_calls EXCEPT ![r] = NoCalls]
    /\ UNCHANGED <<payment, origin, backend_vars, ledger_vars, server, boots,
                   now,
                   insight>>

-----------------------------------------------------------------------------
(* The settlement backend and the environment *)

\* A requested airdrop lands.
AirdropLands ==
    /\ airdrops > 0
    /\ airdrops' = airdrops - 1
    /\ balance' = balance + AIRDROP_SOL
    /\ UNCHANGED <<chain, faults, handler_vars, ledger_vars, server, boots, now,
                   insight>>

\* The oldest transfer still pending at the backend, 0 when there is none.
OldestSubmitted ==
    IF \A i \in 1..Len(chain) : chain[i].status # "submitted" THEN 0
    ELSE CHOOSE i \in 1..Len(chain) :
            /\ chain[i].status = "submitted"
            /\ \A j \in 1..(i - 1) : chain[j].status # "submitted"

\* The backend executes the transfers in the order it accepted them: the
\* oldest pending one is confirmed and paid when the balance covers it, and
\* fails for good otherwise. The handler that submitted it is not told.
ProcessTransfer ==
    /\ OldestSubmitted # 0
    /\ LET i == OldestSubmitted
       IN IF balance >= chain[i].amount
          THEN /\ chain' = [chain EXCEPT ![i].status = "confirmed"]
               /\ balance' = balance - chain[i].amount
          ELSE /\ chain' = [chain EXCEPT ![i].status = "failed"]
               /\ UNCHANGED balance
    /\ UNCHANGED <<airdrops, faults, handler_vars, ledger_vars, server, boots,
                   now,
                   insight>>

\* The process is killed and started again: requests in flight are lost, and
\* the module is imported anew (main.py:47 and load_transactions() at :121),
\* which fails when the file does not parse.
Restart ==
    /\ server = "up"
    /\ boots < MaxRestarts
    /\ boots' = boots + 1
    /\ pc' = [r \in Reqs |-> IF pc[r] \in {"idle", "done"} THEN pc[r] ELSE "lost"]
    /\ client' = [r \in Reqs |-> IF pc[r] \in {"idle", "done"} THEN client[r] ELSE "none"]
    /\ bal_seen' = [r \in Reqs |-> -1]
    /\ tx_sig' = [r \in Reqs |-> 0]
    /\ result' = [r \in Reqs |-> "none"]
    /\ rpc_calls' = [r \in Reqs |-> NoCalls]
    /\ IF load_raises(transactions_file)
       THEN /\ server' = "down"
            /\ transactions_db' = <<>>
       ELSE /\ server' = "up"
            /\ transactions_db' = load_transactions(transactions_file)
    /\ insight' = IdleInsight
    /\ UNCHANGED <<payment, origin, resp, backend_vars, transactions_file, now>>

\* The sort applied to transactions_db itself (no .copy()).
ledger_sorted_in_place(db) == sort_newest_first(db)

\* filtered_txs = transactions_db.copy(): the filters and the sort of
\* get_transactions work on the copy, and the global list stays as it is.
ledger_after_get_transactions(db) == db

\* GET /transactions
GetTransactions ==
    /\ server = "up"
    /\ transactions_db' = ledger_after_get_transactions(transactions_db)
    /\ UNCHANGED <<transactions_file, handler_vars, backend_vars, server, boots,
                   now,
                   insight>>

\* GET /analytics/summary reads transactions_db and assigns nothing global.
GetAnalyticsSummary ==
    /\ server = "up"
    /\ \E t \in ClockReadings :
          /\ now' = t
          /\ get_analytics_summary(transactions_db, t).status \in {200, 500}
    /\ UNCHANGED <<ledger_vars, handler_vars, backend_vars, server, boots,
                   insight>>

\* The timestamps converted where the records are: tx["timestamp"] =
\* pd.to_datetime(tx["timestamp"]) on the dicts the ledger shares with the copy.
ledger_timestamps_parsed(db) ==
    [i \in 1..Len(db) |-> [db[i] EXCEPT !.timestamp = DateTime(@.t)]]

\* filtered_txs = transactions_db.copy() and pd.DataFrame(filtered_txs): the
\* export filters the copy and converts the columns of the frame.
ledger_after_export(db) == db

\* GET /export/csv
ExportTransactionsCsv ==
    /\ server = "up"
    /\ transactions_db' = ledger_after_export(transactions_db)
    /\ UNCHANGED <<transactions_file, handler_vars, backend_vars, server, boots,
                   now, insight>>

\* GET /qr/generate builds the image from its parameters and reads no global.
GenerateQrCode ==
    /\ server = "up"
    /\ EventLoopFree
    /\ \E recipient \in DOMAIN MERCHANTS \cup {"WALLET", "not-base58"} :
          (IF valid_recipient(recipient) THEN 200 ELSE 400) \in {200, 400}
    /\ UNCHANGED vars

\* GET /merchants lists MERCHANTS.
ListMerchants ==
    /\ server = "up"
    /\ UNCHANGED vars

\* POST /ai/insights up to the chat-completion call: the handler answers at
\* once (an exception, or no transactions in the period) or makes the call.
GetAiInsights ==
    /\ server = "up"
    /\ EventLoopFree
    /\ insight.pc = "idle"
    /\ \E period \in InsightPeriods : \E t \in ClockReadings :
          /\ now' = t
          /\ insight' = IF chat_call_reached(transactions_db, t, period)
                        THEN [pc |-> "chat_completion", period |-> period,
                              now |-> t]
                        ELSE IdleInsight
    /\ UNCHANGED <<ledger_vars, handler_vars, backend_vars, server, boots>>

\* The chat-completion call returns or raises, and the handler answers.
ChatCompletionReturns ==
    /\ server = "up"
    /\ insight.pc = "chat_completion"
    /\ \E chat \in ChatOutcomes :
          get_ai_insights(transactions_db, insight.now, insight.period,
                          chat).status
              \in {200, 500}
    /\ insight' = IdleInsight
    /\ UNCHANGED <<ledger_vars, handler_vars, backend_vars, server, boots, now>>

-----------------------------------------------------------------------------
(* The Dashboard page of dashboard.py, a client of GET /analytics/summary *)

\* What fetch_analytics returns when it returns None.
NoAnalytics == [status |-> 0]

\* fetch_analytics(): the JSON body of a 200 answer; None for any other
\* status and when requests.get raises (no server listening).
fetch_analytics(reachable, answer) ==
    IF ~reachable THEN NoAnalytics
    ELSE IF answer.status = 200 THEN answer
    ELSE NoAnalytics

\* analytics.get("stats") as a truth value: the key is there and its value
\* is not an empty dict.
has_stats(analytics) ==
    /\ "stats" \in DOMAIN analytics
    /\ analytics.stats # <<>>

\* if analytics and analytics.get("stats"): the spending metrics, else the
\* welcome screen.
dashboard_page(analytics) ==
    IF analytics # NoAnalytics /\ has_stats(analytics)
    THEN "metrics" ELSE "welcome"

\* The page the Dashboard shows in the current state.
DashboardShows ==
    dashboard_page(
        fetch_analytics(server = "up",
                        get_analytics_summary(transactions_db, now)))

\* The user opens the Dashboard page: one GET /analytics/summary, which
\* reads the clock when the server is there to answer, and nothing of the
\* ledger is written.
Dashboard ==
    /\ IF server = "up"
       THEN \E t \in ClockReadings :
               /\ now' = t
               /\ dashboard_page(
                      fetch_analytics(TRUE,
                          get_analytics_summary(transactions_db, t)))
                    \in {"metrics", "welcome"}
       ELSE /\ DashboardShows = "welcome"
            /\ UNCHANGED now
    /\ UNCHANGED <<ledger_vars, handler_vars, backend_vars, server, boots,
                   insight>>

Next ==
    \/ \E r \in Reqs : Pay(r)
    \/ \E r \in Reqs : Retry(r)
    \/ \E r \in Reqs : GetBalance(r)
    \/ \E r \in Reqs : RequestAirdrop(r)
    \/ \E r \in Reqs : Sleep(r)
    \/ \E r \in Reqs : GetLatestBlockhash(r)
    \/ \E r \in Reqs : SendTransaction(r)
    \/ \E r \in Reqs : RecordTransaction(r)
    \/ \E r \in Reqs : Close(r)
    \/ AirdropLands
    \/ ProcessTransfer
    \/ GetTransactions
    \/ GetAnalyticsSummary
    \/ ExportTransactionsCsv
    \/ GenerateQrCode
    \/ ListMerchants
    \/ GetAiInsights
    \/ ChatCompletionReturns
    \/ Dashboard
    \/ Restart

Spec == Init /\ [][Next]_vars

-----------------------------------------------------------------------------
(* The query endpoints over the ledgers a running server may hold *)

\* What a record is about: a merchant, another merchant, a plain wallet.
QueryShapes ==
    {[recipient |-> "3333",   amount |-> 1, category |-> "data"],
     [recipient |-> "1111",   amount |-> 1, category |-> "food"],
     [recipient |-> "WALLET", amount |-> 2, category |-> "food"]}

\* When it was made: over a month ago, over a week ago, now.
QueryInstants == {0, week_ago_of(Now0) - 1, Now0}

\* The instants at which the queries are made.
QueryNows == Now0..(Now0 + MaxTicks)

\* The ledgers: up to MaxLedger records tx_1.., those loaded from the file
\* (ISO strings) followed by those appended since the start (datetime
\* objects, and only to recipients that process_payment accepts). The wall clock may be set back, so any order of instants occurs.
QueryLedgers ==
    UNION {{[i \in 1..n |->
                [StoredRecord(i, f[i][1].recipient, f[i][1].amount,
                              f[i][1].category, f[i][2], i)
                    EXCEPT !.timestamp = IF i > n - k THEN DateTime(f[i][2])
                                         ELSE IsoString(f[i][2])]] :
             <<f, k>> \in
                {x \in [1..n -> QueryShapes \X QueryInstants] \X (0..n) :
                    \A i \in 1..n :
                        i > n - x[2] => valid_recipient(x[1][i][1].recipient)}} :
           n \in 0..MaxLedger}

\* A server with no payment in flight, holding one of the ledgers; the file
\* is as the last save left it.
QueryInit ==
    /\ transactions_db \in QueryLedgers
    /\ transactions_file = IF transactions_db = <<>> THEN AbsentFile
                           ELSE save_transactions(transactions_db)
    /\ server = "up"
    /\ boots = 0
    /\ now \in QueryNows
    /\ pc = [r \in Reqs |-> "idle"]
    /\ payment = [r \in Reqs |-> NoPayment]
    /\ origin = [r \in Reqs |-> r]
    /\ client = [r \in Reqs |-> "none"]
    /\ bal_seen = [r \in Reqs |-> -1]
    /\ tx_sig = [r \in Reqs |-> 0]
    /\ result = [r \in Reqs |-> "none"]
    /\ resp = [r \in Reqs |-> 0]
    /\ rpc_calls = [r \in Reqs |-> NoCalls]
    /\ chain = [i \in 1..Len(transactions_db) |->
                  [req |-> 0, origin |-> 0,
                   amount |-> transactions_db[i].amount_sol,
                   status |-> "confirmed"]]
    /\ balance = InitBalance
    /\ airdrops = 0
    /\ faults = 0
    /\ insight = IdleInsight

QueryNext ==
    \/ GetTransactions
    \/ GetAnalyticsSummary
    \/ ExportTransactionsCsv
    \/ GenerateQrCode
    \/ ListMerchants
    \/ GetAiInsights
    \/ ChatCompletionReturns
    \/ Dashboard

QuerySpec == QueryInit /\ [][QueryNext]_vars

-----------------------------------------------------------------------------
(* Properties *)

\* Record rec was built by request r: its signature is the one the backend
\* gave for the transfer r submitted.
MadeBy(rec, r) ==
    /\ rec.tx_signature \in 1..Len(chain)
    /\ chain[rec.tx_signature].req = r

RecordsOf(r) == {i \in 1..Len(transactions_db) : MadeBy(transactions_db[i], r)}

\* GET /transactions with no filter and the default limit.
ListAll == get_transactions(transactions_db, NULL, NoDate, NoDate, 50)

Listed(r) ==
    /\ ListAll.status = 200
    /\ \E i \in 1..Len(ListAll.transactions) : MadeBy(ListAll.transactions[i], r)

BeforeRecord == {"get_balance", "request_airdrop", "sleep",
                 "get_latest_blockhash", "send_transaction", "sent"}

\* C1 as stated: while the transfer of a request is with the backend (sent,
\* answer awaited), a record of the request is in the ledger and listed by
\* get_transactions.
C1_PendingRecordDuringSettlement ==
    \A r \in Reqs : pc[r] = "sent" => (RecordsOf(r) # {} /\ Listed(r))

\* C1 amended: a valid payment request has no ledger record until
\* send_transaction has returned; the one record of the request is appended
\* after the backend accepted the transfer, and a request whose backend call
\* raised has none.
C1_OneRecordAfterSubmission ==
    \A r \in Reqs :
        /\ pc[r] \in BeforeRecord => RecordsOf(r) = {}
        /\ (pc[r] = "close" /\ tx_sig[r] # 0) => Cardinality(RecordsOf(r)) = 1
        /\ (pc[r] = "close" /\ tx_sig[r] = 0) => RecordsOf(r) = {}

C1_Witness ==
    \E r, q \in Reqs :
        /\ pc[r] = "close" /\ tx_sig[r] # 0 /\ Cardinality(RecordsOf(r)) = 1
        /\ pc[q] = "sent" /\ RecordsOf(q) = {}

\* A request body the API must reject.
BadRequest(p) ==
    \/ p.amount <= 0
    \/ p.recipient \in {"not-base58", "2222", "3333", "4444"}

NoBackendTrace(r) ==
    /\ rpc_calls[r] = NoCalls
    /\ client[r] = "none"
    /\ \A i \in 1..Len(chain) : chain[i].req # r

\* C2: a request with an invalid recipient or a non-positive amount is
\* rejected in the step that receives it (400 or 422), with no call to the
\* backend, no record appended and the file not written, and nothing is done
\* for it later.
C2_InvalidRejectedSynchronously ==
    /\ [](\A r \in Reqs : (pc[r] # "idle" /\ BadRequest(payment[r])) =>
            /\ pc[r] = "done"
            /\ resp[r] \in {400, 422}
            /\ NoBackendTrace(r)
            /\ RecordsOf(r) = {})
    /\ [][\A r \in Reqs :
            (pc[r] = "idle" /\ pc'[r] # "idle" /\ BadRequest(payment'[r])) =>
                UNCHANGED <<transactions_db, transactions_file, chain, balance,
                            airdrops>>]_vars

C2_Witness ==
    /\ \E r \in Reqs : pc[r] = "done" /\ resp[r] = 422 /\ payment[r].amount <= 0
    /\ \E r \in Reqs : pc[r] = "done" /\ resp[r] = 400
                       /\ payment[r].recipient = "not-base58"

\* C3: no two records of transactions_db have the same id.
C3_IdsPairwiseDistinct ==
    \A i, j \in 1..Len(transactions_db) :
        i # j => transactions_db[i].id # transactions_db[j].id

\* Two handlers that overlapped (the later request submitted first) have both
\* appended, after a restart that reloaded a file with records.
C3_Witness ==
    /\ boots > 0 /\ server = "up"
    /\ \E i \in 1..Len(transactions_db) : transactions_db[i].timestamp.kind = "str"
    /\ \E r, q \in Reqs :
        /\ r < q
        /\ \E i \in RecordsOf(r), j \in RecordsOf(q) :
              transactions_db[j].tx_signature < transactions_db[i].tx_signature

IsPrefix(s, t) == Len(s) <= Len(t) /\ SubSeq(t, 1, Len(s)) = s

\* C4: while the process runs, transactions_db only grows at its end: every
\* record stays, at its place, with every field as it was.
C4_AppendOnly ==
    [][(server = "up" /\ boots' = boots) =>
          IsPrefix(transactions_db, transactions_db')]_vars

\* Records loaded from the file and records appended by two requests.
C4_Witness ==
    /\ Len(transactions_db) >= 4
    /\ transactions_db[1].timestamp.t < transactions_db[2].timestamp.t
    /\ \E r, q \in Reqs : r # q /\ RecordsOf(r) # {} /\ RecordsOf(q) # {}

\* C5 as stated: the transfer of one payment (a request and the requests that
\* retry it) is submitted to the backend at most once.
C5_SubmittedAtMostOnce ==
    \A o \in Reqs :
        Cardinality({i \in 1..Len(chain) : chain[i].origin = o}) <= 1

\* The first backend call of request r, get_balance, raised: r never got an
\* answer from the backend.
BackendUnavailableFor(r) == pc[r] = "close" /\ bal_seen[r] = -1

OnlyGetBalance == [NoCalls EXCEPT !.get_balance = 1]

\* C6 as stated: a payment that found the backend unavailable on every
\* attempt ends as a (FAILED) record of the ledger.
C6_FailedRecordAfterRetries ==
    \A r \in Reqs : BackendUnavailableFor(r) => RecordsOf(r) # {}

\* C6 amended: no backend call is ever repeated and an exception goes straight
\* to the finally block; so a payment that finds the backend unavailable ends
\* after exactly one call (get_balance), with no submission attempted, an
\* error for the caller and no ledger record.
C6_NoRetryNoRecord ==
    \A r \in Reqs :
        /\ \A name \in DOMAIN NoCalls : rpc_calls[r][name] <= 1
        /\ result[r] = "error" => pc[r] = "close"
        /\ BackendUnavailableFor(r) =>
              /\ rpc_calls[r] = OnlyGetBalance
              /\ result[r] = "error"
              /\ RecordsOf(r) = {}
              /\ \A i \in 1..Len(chain) : chain[i].req # r

C6_Witness ==
    \E r \in Reqs : BackendUnavailableFor(r) /\ rpc_calls[r].get_balance = 1

\* Request r read a balance that does not cover its amount.
InsufficientFor(r) ==
    bal_seen[r] >= 0 /\ bal_seen[r] < lamports_of(payment[r].amount)

SufficientFor(r) ==
    bal_seen[r] >= 0 /\ bal_seen[r] >= lamports_of(payment[r].amount)

\* C7 as stated: a payment that found the balance insufficient makes no
\* further attempt at the backend and ends as a (FAILED) record of the ledger.
C7_FailedRecordNoFurtherAttempt ==
    \A r \in Reqs : InsufficientFor(r) =>
        /\ rpc_calls[r].request_airdrop = 0
        /\ rpc_calls[r].get_latest_blockhash = 0
        /\ rpc_calls[r].send_transaction = 0
        /\ pc[r] = "close" => RecordsOf(r) # {}

\* C7 amended: a payment that finds the balance insufficient requests one
\* airdrop, sleeps and then submits the transfer all the same (a payment that
\* finds it sufficient requests none); when the submission or another call
\* raises, the caller gets the error and no ledger record is written.
C7_AirdropThenSubmit ==
    \A r \in Reqs :
        /\ SufficientFor(r) => rpc_calls[r].request_airdrop = 0
        /\ (InsufficientFor(r) /\ pc[r] = "request_airdrop") =>
              rpc_calls[r].send_transaction = 0
        /\ (InsufficientFor(r) /\ pc[r] \in {"sleep", "get_latest_blockhash",
                                             "send_transaction", "sent"}) =>
              rpc_calls[r].request_airdrop = 1
        /\ (InsufficientFor(r) /\ rpc_calls[r].send_transaction > 0) =>
              rpc_calls[r].request_airdrop = 1
        /\ (InsufficientFor(r) /\ pc[r] = "close" /\ tx_sig[r] = 0) =>
              result[r] = "error" /\ RecordsOf(r) = {}

\* The airdrop did not land in time and the backend rejected the transfer.
C7_Witness ==
    \E r \in Reqs :
        /\ InsufficientFor(r) /\ pc[r] = "close" /\ tx_sig[r] = 0
        /\ rpc_calls[r].request_airdrop = 1
        /\ rpc_calls[r].send_transaction = 1

Summary == get_analytics_summary(transactions_db, now)

\* C8 as stated: the record of an accepted payment carries the reference the
\* backend answered with, is returned by get_transactions, and is counted in
\* the category breakdown of get_analytics_summary while the 30-day window
\* holds its timestamp.
C8_ListedAndCounted ==
    \A r \in Reqs : \A i \in RecordsOf(r) :
        /\ Cardinality(RecordsOf(r)) = 1
        /\ Listed(r)
        /\ transactions_db[i].timestamp.t >= month_ago_of(now) =>
              /\ Summary.status = 200
              /\ transactions_db[i].category \in DOMAIN Summary.category_breakdown

\* The records get_transactions returns and sums, when it answers.
ListedRecords ==
    IF ListAll.status = 200
    THEN {ListAll.transactions[i] : i \in 1..Len(ListAll.transactions)}
    ELSE {}

\* C9 as stated: every record in the totals of get_transactions stands for a
\* transfer the backend has reported confirmed.
C9_OnlyConfirmedCounted ==
    \A rec \in ListedRecords :
        /\ rec.tx_signature \in 1..Len(chain)
        /\ chain[rec.tx_signature].status = "confirmed"

\* C9 amended: every record in the totals of get_transactions stands for a
\* transfer of the record's amount that the backend accepted on submission
\* (send_transaction returned its signature); whether it was confirmed is
\* never looked at.
C9_OnlySubmittedCounted ==
    \A rec \in ListedRecords :
        /\ rec.tx_signature \in 1..Len(chain)
        /\ chain[rec.tx_signature].amount = rec.amount_sol
        /\ chain[rec.tx_signature].status \in {"submitted", "confirmed", "failed"}

C9_Witness ==
    \E rec \in ListedRecords :
        /\ rec.tx_signature \in 1..Len(chain)
        /\ chain[rec.tx_signature].status = "failed"

\* The records of the 30-day window, and their grouping done by hand.
MonthIndices ==
    {i \in 1..Len(transactions_db) :
        transactions_db[i].timestamp.t >= month_ago_of(now)}

RECURSIVE SumOfSet(_, _)
SumOfSet(indices, field) ==
    IF indices = {} THEN 0
    ELSE LET i == CHOOSE x \in indices : TRUE
         IN transactions_db[i][field] + SumOfSet(indices \ {i}, field)

BruteForceGroup(c) ==
    LET members == {i \in MonthIndices : transactions_db[i].category = c}
    IN [count |-> Cardinality(members),
        sol   |-> SumOfSet(members, "amount_sol"),
        ngn   |-> SumOfSet(members, "amount_ngn")]

BreakdownIsBruteForce ==
    /\ Summary.status = 200
    /\ DOMAIN Summary.category_breakdown =
          {transactions_db[i].category : i \in MonthIndices}
    /\ \A c \in DOMAIN Summary.category_breakdown :
          Summary.category_breakdown[c] = BruteForceGroup(c)
    /\ Summary.monthly.transactions = Cardinality(MonthIndices)
    /\ Summary.monthly.total_sol = SumOfSet(MonthIndices, "amount_sol")
    /\ Summary.monthly.total_ngn = SumOfSet(MonthIndices, "amount_ngn")

\* C10 as stated: for every content of the ledger, the category breakdown of
\* get_analytics_summary is the grouping by hand of the records of the 30-day
\* window, and its counts and amounts add up to the monthly figures.
C10_BreakdownIsBruteForce ==
    transactions_db # <<>> => BreakdownIsBruteForce

\* The record request r built is in the file as last written.
InFile(r) ==
    /\ transactions_file.state = "valid"
    /\ \E i \in 1..Len(transactions_file.content) :
          MadeBy(transactions_file.content[i], r)

\* C11: the success response of process_payment comes only after the
\* payment's record is in transactions_db and in the transactions file. The
\* step that builds the record appends it, and leaves the handler on its way
\* to "return tx_record" exactly when the file then holds the record; a
\* request gets its 200 only from a handler on that way, with its record in
\* the ledger; and a handler whose record did not reach the file answers with
\* an error, so no payment is reported successful without a ledger record.
C11_SuccessOnlyAfterLedgerWrite ==
    [][\A r \in Reqs :
        /\ (pc[r] = "sent" /\ pc'[r] = "close") =>
              /\ RecordsOf(r)' # {}
              /\ (result'[r] = "ok") <=> InFile(r)'
        /\ (resp[r] # 200 /\ resp'[r] = 200) =>
              /\ pc[r] = "close" /\ result[r] = "ok"
              /\ RecordsOf(r) # {}
        /\ (pc[r] = "close" /\ pc'[r] = "done" /\ ~InFile(r)) =>
              resp'[r] = 500]_vars

\* C11 witness: a request whose record was appended and whose write to the
\* file failed has been answered, with an error.
C11_Witness ==
    \E r \in Reqs :
        /\ boots = 0
        /\ pc[r] = "done" /\ resp[r] = 500
        /\ RecordsOf(r) # {} /\ ~InFile(r)

\* C12 as stated: a restart restores the ledger as it was before it: the
\* process comes up again and transactions_db holds the same records, with the
\* same values, in the same order.
C12_RestartRestoresLedger ==
    [][boots' # boots =>
          (server' = "up" /\ transactions_db' = transactions_db)]_vars

\* The body of a request names no category: the field is left out or null.
NoCategoryStated(body) == body.category \in {ABSENT, NULL}

\* C19 as stated: the record of a payment whose body states no category
\* carries the category of the recipient's MERCHANTS entry; when the recipient
\* has no entry it carries the category the body states, or other.
C19_DirectoryFillsCategory ==
    \A r \in Reqs : \A i \in RecordsOf(r) :
        LET body == payment[r]
            rec  == transactions_db[i]
        IN IF body.recipient \in DOMAIN MERCHANTS
           THEN NoCategoryStated(body) =>
                   rec.category = MERCHANTS[body.recipient].category
           ELSE rec.category =
                   IF NoCategoryStated(body) THEN "other" ELSE body.category

\* The backend accepted a transfer from request r.
Submitted(r) == \E i \in 1..Len(chain) : chain[i].req = r

\* The handler of request r is past the append of its record.
PastAppend(r) ==
    \/ pc[r] = "close" /\ tx_sig[r] # 0
    \/ pc[r] = "done" /\ Submitted(r)

\* C20: in one server process no update is lost between concurrent
\* payments: whatever the interleaving of the handlers at their await
\* points, every handler that is past its append, and so every handler that
\* completed, has exactly one record in transactions_db, an append keeps all
\* the records that were there, and a save_transactions that completes
\* leaves the file equal to transactions_db as it is at that moment.
C20_NoLostUpdate ==
    /\ [](boots = 0 =>
            \A r \in Reqs : PastAppend(r) => Cardinality(RecordsOf(r)) = 1)
    /\ [][\A r \in Reqs :
            (pc[r] = "sent" /\ pc'[r] = "close") =>
                /\ IsPrefix(transactions_db, transactions_db')
                /\ Len(transactions_db') = Len(transactions_db) + 1
                /\ result'[r] = "ok" =>
                      /\ transactions_file'.state = "valid"
                      /\ transactions_file'.content = transactions_db']_vars

\* C20 witness: two handlers of one process interleaved, the transfer of one
\* accepted first and its record appended second; both have ended and each
\* has its one record.
C20_Witness ==
    \E r, q \in Reqs :
        /\ boots = 0
        /\ pc[r] = "done" /\ pc[q] = "done"
        /\ \E i \in RecordsOf(r) : \E j \in RecordsOf(q) :
              /\ transactions_db[i].tx_signature < transactions_db[j].tx_signature
              /\ i > j

\* A step of the handler of request r, from one await point to the next.
HandlerStep(r) ==
    \/ GetBalance(r)
    \/ RequestAirdrop(r)
    \/ Sleep(r)
    \/ GetLatestBlockhash(r)
    \/ SendTransaction(r)
    \/ RecordTransaction(r)
    \/ Close(r)

InFlight == BeforeRecord \cup {"close"}

\* C17 as stated: while get_ai_insights waits for the chat-completion call, a
\* payment request in flight in the same server can take its next step.
C17_PaymentNotBlocked ==
    \A r \in Reqs :
        (server = "up" /\ insight.pc = "chat_completion" /\ pc[r] \in InFlight)
            => ENABLED HandlerStep(r)

\* Newest first, and records of one instant by id ascending.
NewestFirstTiesById(txs) ==
    \A i, j \in 1..Len(txs) :
        i < j => \/ txs[i].timestamp.t > txs[j].timestamp.t
                 \/ /\ txs[i].timestamp.t = txs[j].timestamp.t
                    /\ txs[i].id < txs[j].id

CategoryFilters == Categories \cup {NULL}

\* C13 as stated: get_transactions, with or without a category, returns the
\* records ordered by timestamp descending and, within one timestamp, by id
\* ascending.
C13_NewestFirstTiesById ==
    \A category \in CategoryFilters :
        LET answer == get_transactions(transactions_db, category, NoDate, NoDate, 50)
        IN /\ answer.status = 200
           /\ NewestFirstTiesById(answer.transactions)

\* The date bounds asked for: none, or an instant around the records'.
DateFilters == {NoDate, 0, Now0 - 1, Now0, Now0 + 1}

\* Record tx satisfies every filter that is supplied, bounds inclusive.
Satisfies(tx, category, start_date, end_date) ==
    /\ category # NULL => tx.category = category
    /\ start_date # NoDate => tx.timestamp.t >= start_date
    /\ end_date # NoDate => tx.timestamp.t <= end_date

\* C14 as stated: for every combination of category, start_date and end_date
\* get_transactions answers with exactly the records of the ledger that
\* satisfy every supplied filter, and total counts them.
C14_FilterIsConjunction ==
    \A category \in CategoryFilters : \A start_date, end_date \in DateFilters :
        LET answer == get_transactions(transactions_db, category, start_date,
                                       end_date, 50)
            wanted == {i \in 1..Len(transactions_db) :
                         Satisfies(transactions_db[i], category, start_date,
                                   end_date)}
        IN /\ answer.status = 200
           /\ {answer.transactions[i].id : i \in 1..Len(answer.transactions)}
                 = {transactions_db[i].id : i \in wanted}
           /\ Len(answer.transactions) = Cardinality(wanted)
           /\ answer.total = Cardinality(wanted)

\* The merchants' names in alphabetical order.
NamesAscending == <<"Cab Car Park", "Campus Bookstore", "Campus Cafeteria",
                    "Data Reseller">>

NameRank(name) == CHOOSE i \in 1..Len(NamesAscending) : NamesAscending[i] = name

\* Largest total first, and merchants of one total by name ascending (for
\* the four merchants that is the order of their addresses as well).
LargestFirstTiesByName(items) ==
    \A i, j \in 1..Len(items) :
        i < j => \/ items[i].amount_ngn > items[j].amount_ngn
                 \/ /\ items[i].amount_ngn = items[j].amount_ngn
                    /\ (items[i].name # NULL /\ items[j].name # NULL) =>
                          NameRank(items[i].name) < NameRank(items[j].name)

\* C15 as stated, for the calls that answer with a list: top_merchants of
\* get_analytics_summary is ordered by total descending, and merchants with
\* equal totals by identifier ascending, whatever the order of the records.
C15_TopMerchantsTiesByName ==
    (Summary.status = 200 /\ Summary.message = NULL) =>
        LargestFirstTiesByName(Summary.top_merchants)

\* The records of the period the outstanding /ai/insights request asks for.
PeriodIndices ==
    {i \in 1..Len(transactions_db) :
        transactions_db[i].timestamp.t >=
            period_start(insight.now, insight.period)}

PeriodCategories == {transactions_db[i].category : i \in PeriodIndices}

PeriodTotal(c, field) ==
    SumOfSet({i \in PeriodIndices : transactions_db[i].category = c}, field)

\* C16: while the chat-completion call is outstanding, what the handler
\* answers if the call raises is a successful response (200) whose insights
\* are the fallback summary of the period's records: their count, their
\* totals, and a category of the largest total with its amount.
C16_FallbackOnChatError ==
    insight.pc = "chat_completion" =>
        LET answer == get_ai_insights(transactions_db, insight.now,
                                      insight.period, "raises")
        IN /\ answer.status = 200
           /\ answer.insights.transactions = Cardinality(PeriodIndices)
           /\ answer.insights.total_sol = SumOfSet(PeriodIndices, "amount_sol")
           /\ answer.insights.total_ngn = SumOfSet(PeriodIndices, "amount_ngn")
           /\ answer.insights.top_category \in PeriodCategories
           /\ \A c \in PeriodCategories :
                 PeriodTotal(c, "amount_sol") <=
                     PeriodTotal(answer.insights.top_category, "amount_sol")
           /\ answer.insights.top_amount =
                 PeriodTotal(answer.insights.top_category, "amount_ngn")

\* The call is outstanding for a period that holds records of two
\* categories, the one of the larger total appended last.
C16_Witness ==
    /\ insight.pc = "chat_completion"
    /\ \E i, j \in PeriodIndices :
          /\ i < j
          /\ transactions_db[i].category # transactions_db[j].category
          /\ transactions_db[i].amount_sol < transactions_db[j].amount_sol

\* C18: no step of a query endpoint (get_transactions, get_analytics_summary,
\* export_transactions_csv, get_ai_insights, generate_qr_code,
\* list_merchants) changes transactions_db or the transactions file, whether
\* the endpoint answers or raises.
C18_QueriesLeaveLedger ==
    [][(\/ GetTransactions
        \/ GetAnalyticsSummary
        \/ ExportTransactionsCsv
        \/ GetAiInsights
        \/ ChatCompletionReturns
        \/ GenerateQrCode
        \/ ListMerchants) => UNCHANGED <<transactions_db, transactions_file>>]_vars

\* A query has run, as far as the chat-completion call, on a ledger of
\* several records loaded from the file.
C18_Witness ==
    /\ insight.pc = "chat_completion"
    /\ Len(transactions_db) >= 2
    /\ transactions_file.state = "valid"

-----------------------------------------------------------------------------
(* C21: a raising settlement-backend call *)

\* The four awaited backend calls of process_payment.
BackendCalls ==
    {"get_balance", "request_airdrop", "get_latest_blockhash", "send_transaction"}

\* Request r is at the finally clause because a backend call raised: no
\* signature was obtained.
BackendCallRaised(r) ==
    pc[r] = "close" /\ result[r] = "error" /\ tx_sig[r] = 0

\* C21: when a settlement-backend call of process_payment raises (balance
\* check, airdrop request, blockhash fetch or send_transaction), the raising
\* step appends no record and leaves transactions_db and the transactions
\* file unchanged, the request has no record in the ledger, the caller is
\* answered with the error (500), and the RPC client opened for the request
\* is closed; every request that went through the handler body, the one that
\* reached the append included, ends with its client closed.
C21_RaiseLeavesLedgerAndClosesClient ==
    /\ [](\A r \in Reqs :
            /\ BackendCallRaised(r) => RecordsOf(r) = {}
            /\ (pc[r] = "done" /\ resp[r] \in {200, 500})
                  => client[r] = "closed")
    /\ [][\A r \in Reqs :
            /\ (pc[r] \in BackendCalls /\ result'[r] = "error")
                  => /\ pc'[r] = "close"
                     /\ UNCHANGED <<transactions_db, transactions_file>>
            /\ (BackendCallRaised(r) /\ pc'[r] = "done")
                  => /\ resp'[r] = 500
                     /\ client'[r] = "closed"
                     /\ RecordsOf(r)' = {}
                     /\ UNCHANGED <<transactions_db, transactions_file>>]_vars

\* C21 witness: one request ended with the error of a raising backend call,
\* left nothing in the ledger and has its client closed, and another request
\* that reached the append has its client closed as well.
C21_Witness ==
    \E r, q \in Reqs :
        /\ pc[r] = "done" /\ resp[r] = 500
        /\ RecordsOf(r) = {} /\ client[r] = "closed"
        /\ pc[q] = "done" /\ RecordsOf(q) # {} /\ client[q] = "closed"

-----------------------------------------------------------------------------
(* C22: paging in get_transactions *)

\* The limits asked for: limit is an int with an upper bound only
\* (Query(50, le=100)), so a negative limit passes validation.
PageLimits == {-1, 0, 1, 2, 50}

\* C22 as stated, for the calls that answer with a list: for every filter
\* and limit the returned list is the first min(limit, total) records of the
\* sorted filtered set, and total, total_sol and total_ngn are those of the
\* whole filtered set whatever the limit.
C22_PageIsPrefixTotalsAreWhole ==
    \A category \in CategoryFilters : \A start_date, end_date \in DateFilters :
      \A limit \in PageLimits :
        LET answer == get_transactions(transactions_db, category, start_date,
                                       end_date, limit)
            wanted == {i \in 1..Len(transactions_db) :
                         Satisfies(transactions_db[i], category, start_date,
                                   end_date)}
            sorted == sort_newest_first(
                        SelectTx(transactions_db,
                                 LAMBDA tx : Satisfies(tx, category, start_date,
                                                       end_date)))
            total  == Cardinality(wanted)
            page   == IF limit < total THEN limit ELSE total
        IN answer.status = 200 =>
             /\ answer.transactions = SubSeq(sorted, 1, page)
             /\ answer.total = total
             /\ answer.total_sol = SumOfSet(wanted, "amount_sol")
             /\ answer.total_ngn = SumOfSet(wanted, "amount_ngn")

-----------------------------------------------------------------------------
(* C23: the windows of get_analytics_summary *)

\* The records of the ledger stamped at or after an instant.
WindowIndices(since) ==
    {i \in 1..Len(transactions_db) : transactions_db[i].timestamp.t >= since}

\* The summary answers with the three windows' figures.
SummaryHasFigures == Summary.status = 200 /\ Summary.message = NULL

\* C23: for every ledger and every current time the windows of
\* get_analytics_summary are nested: the day starts no earlier than the week
\* and the week no earlier than the month, every record counted in the
\* daily figures is counted in the weekly figures and every record counted
\* in the weekly figures is counted in the monthly figures, and so the
\* transaction counts and both totals of a summary satisfy
\* daily <= weekly <= monthly.
C23_WindowsNested ==
    LET day   == WindowIndices(today_of(now))
        week  == WindowIndices(week_ago_of(now))
        month == WindowIndices(month_ago_of(now))
    IN /\ today_of(now) >= week_ago_of(now)
       /\ week_ago_of(now) >= month_ago_of(now)
       /\ SummaryHasFigures =>
            /\ Summary.daily.transactions = Cardinality(day)
            /\ Summary.weekly.transactions = Cardinality(week)
            /\ Summary.monthly.transactions = Cardinality(month)
            /\ day \subseteq week /\ week \subseteq month
            /\ \A field \in {"transactions", "total_sol", "total_ngn"} :
                  /\ Summary.daily[field] <= Summary.weekly[field]
                  /\ Summary.weekly[field] <= Summary.monthly[field]

\* C23 witness: a summary whose three windows differ, the day holding fewer
\* records than the week and the week fewer than the month.
C23_Witness ==
    /\ SummaryHasFigures
    /\ Summary.daily.transactions < Summary.weekly.transactions
    /\ Summary.weekly.transactions < Summary.monthly.transactions
    /\ Summary.weekly.total_ngn < Summary.monthly.total_ngn

-----------------------------------------------------------------------------
(* C24: the Dashboard page *)

\* C24 as stated: whenever the API is reachable and the ledger holds at
\* least one transaction the Dashboard page shows the spending metrics built
\* from the answer of /analytics/summary, and it shows the welcome screen
\* only when the ledger is empty or the API is unreachable.
C24_MetricsWhenLedgerNotEmpty ==
    /\ (server = "up" /\ transactions_db # <<>>) => DashboardShows = "metrics"
    /\ DashboardShows = "welcome" => (transactions_db = <<>> \/ server # "up")

====
